---- MODULE Spec2Model ----
(***************************************************************************)
(* A model of python/helpers/rate_limiter.py: class RateLimiter (a sliding *)
(* window of admission timestamps plus an optional token bucket behind one *)
(* lock), driven by concurrent callers and a real-time clock, and of the   *)
(* module's registry of named limiters, get_rate_limiter; and of class     *)
(* TokenBucket of python/helpers/tokens.py, statement by statement.        *)
(*                                                                         *)
(* Time is counted in ticks of 0.1 s, the length of the retry sleep of     *)
(* acquire(); per_seconds and timeouts are whole numbers of ticks.         *)
(* token_refill_rate is in tokens per tick and every token quantity of a   *)
(* configuration is a multiple of the rate, so the float products and      *)
(* quotients of the source are exact integers here.                        *)
(***************************************************************************)
EXTENDS Integers, Sequences, FiniteSets, TLC

\* ------------------------------------------------------------------ bounds

\* The last instant of the clock.
MaxTime == 4

\* The threads that call the limiter.
Callers == {"c1", "c2"}

\* The threads that call the blocking forms of acquire in the specifications
\* that restrict them.
Blocking == {"c1"}

\* No thread holds the lock.
Free == "free"

\* Python's None for the optional constructor arguments.
None == -1

\* acquire(): time.sleep(min(0.1, ...)): 0.1 s is one tick.
RetrySleep == 1

\* The timeouts a caller passes to acquire(block=True, timeout=T).
Timeouts == {0, 2}

\* The names the callers pass to get_rate_limiter.
Names == {"x", "y"}

\* The most RateLimiter objects get_rate_limiter constructs in a behaviour.
MaxInstances == 3

\* The constructor arguments the callers' limiter is built with.  The first
\* two are pure sliding windows, the next two add a token bucket, the fifth
\* has a capacity below max_tokens and below tokens_per_request (the
\* constructor accepts it), the last admits nothing.
Configs ==
  { [max_requests |-> 1, per_seconds |-> 2, max_tokens |-> None,
     tokens_per_request |-> 1, token_refill_rate |-> 1, max_token_capacity |-> None],
    [max_requests |-> 2, per_seconds |-> 1, max_tokens |-> None,
     tokens_per_request |-> 1, token_refill_rate |-> 1, max_token_capacity |-> None],
    [max_requests |-> 2, per_seconds |-> 1, max_tokens |-> 2,
     tokens_per_request |-> 2, token_refill_rate |-> 1, max_token_capacity |-> None],
    [max_requests |-> 2, per_seconds |-> 2, max_tokens |-> 2,
     tokens_per_request |-> 2, token_refill_rate |-> 2, max_token_capacity |-> 4],
    [max_requests |-> 1, per_seconds |-> 2, max_tokens |-> 2,
     tokens_per_request |-> 2, token_refill_rate |-> 1, max_token_capacity |-> 1],
    [max_requests |-> 0, per_seconds |-> 1, max_tokens |-> None,
     tokens_per_request |-> 1, token_refill_rate |-> 1, max_token_capacity |-> None] }

\* Constructor arguments outside the valid ones, all accepted by __init__: a
\* window of length 0 and a bucket that never refills.
Rejectable ==
  { [max_requests |-> 1, per_seconds |-> 0, max_tokens |-> None,
     tokens_per_request |-> 1, token_refill_rate |-> 1, max_token_capacity |-> None],
    [max_requests |-> 2, per_seconds |-> 1, max_tokens |-> 1,
     tokens_per_request |-> 1, token_refill_rate |-> 0, max_token_capacity |-> None] }

\* ------------------------------------------------------------------- state

VARIABLES
  cfg,              \* the constructor arguments
  now,              \* time.time()
  requests,         \* self.requests, the deque of admission timestamps
  tokens,           \* self.tokens
  last_refill_time, \* self.last_refill_time
  lock,             \* self.lock: Free or the caller holding it
  pc,               \* each caller's position in the code
  op,               \* each caller's public operation
  current_time,     \* each caller's local current_time
  timeout,          \* acquire(): each caller's timeout argument
  end_time,         \* acquire(): each caller's local end_time
  wait_time,        \* wait(): each caller's local wait_time
  sleep_until,      \* time.sleep(): the instant the sleep may end
  ev,               \* history: the locked section or return just completed
  admitted,         \* history: real instants of the admissions of the trailing window
  released,         \* history: release() has removed a timestamp
  budget,           \* history: an eagerly refilled token bucket
  trip,             \* history: progress of an admission / release round trip
  lastWait,         \* history: the last waitTime() since an admission or release
  rate_limiters,    \* _rate_limiters: name -> the object stored (0: no entry)
  instances,        \* the RateLimiter objects get_rate_limiter has constructed
  gpc,              \* each caller's position in get_rate_limiter
  garg,             \* get_rate_limiter: each caller's arguments
  handle,           \* the object each caller's last get_rate_limiter returned
  gev,              \* history: the get_rate_limiter call that just returned
  given,            \* history: the objects returned for each name
  firstArg,         \* history: <<the arguments of the first call>> for each name
  tb_tokens,        \* TokenBucket: self.tokens
  last_update,      \* TokenBucket: self.last_update
  tb_lock,          \* TokenBucket: self.lock, a boolean flag
  tb_pc,            \* TokenBucket: each caller's position in consume / get_tokens
  tb_local,         \* TokenBucket: each caller's operation, argument and locals
  tb_consumed       \* history: the tokens taken by consume() calls that return True

vars == <<cfg, now, requests, tokens, last_refill_time, lock, pc, op,
          current_time, timeout, end_time, wait_time, sleep_until,
          ev, admitted, released, budget, trip, lastWait,
          rate_limiters, instances, gpc, garg, handle, gev, given, firstArg,
          tb_tokens, last_update, tb_lock, tb_pc, tb_local, tb_consumed>>

\* The state of the tokens.TokenBucket and of its callers.
bucket == <<tb_tokens, last_update, tb_lock, tb_pc, tb_local, tb_consumed>>

registry == <<rate_limiters, instances, gpc, garg, handle, gev, given, firstArg>>

limiter == <<requests, tokens, last_refill_time>>
locals == <<current_time, timeout, end_time, wait_time, sleep_until>>
hist == <<admitted, released, budget, trip, lastWait>>

\* ------------------------------------------------------- __init__ (22-57)

max_requests == cfg.max_requests
per_seconds == cfg.per_seconds
tokens_per_request == cfg.tokens_per_request
token_refill_rate == cfg.token_refill_rate

\* self.use_token_bucket = max_tokens is not None
use_token_bucket == cfg.max_tokens # None

\* self.max_token_capacity = max_token_capacity or max_tokens
max_token_capacity ==
  IF cfg.max_token_capacity = None \/ cfg.max_token_capacity = 0
  THEN cfg.max_tokens ELSE cfg.max_token_capacity

Min(a, b) == IF a <= b THEN a ELSE b
Max(a, b) == IF a >= b THEN a ELSE b

\* --------------------------------------------------- the token bucket (59-88)

\* _refill_tokens without line 70: last_refill_time is not advanced.
RefillTokensNoStamp(tok, lrt, t) ==
  IF ~use_token_bucket THEN <<tok, lrt>>
  ELSE IF t - lrt > 0
       THEN <<Min(max_token_capacity, tok + (t - lrt) * token_refill_rate), lrt>>
       ELSE <<tok, lrt>>

\* _refill_tokens at clock reading t: the new <<tokens, last_refill_time>>.
RefillTokens(tok, lrt, t) ==
  IF ~use_token_bucket THEN <<tok, lrt>>
  ELSE IF t - lrt > 0
       THEN <<Min(max_token_capacity, tok + (t - lrt) * token_refill_rate), t>>
       ELSE <<tok, lrt>>

\* _has_tokens(tokens_needed) on the refilled bucket.
HasTokens(tok, tokens_needed) ==
  IF ~use_token_bucket THEN TRUE ELSE tok >= tokens_needed

\* _consume_tokens(n) at clock reading t: <<consumed?, tokens, last_refill_time>>.
ConsumeTokens(tok, lrt, t, n) ==
  LET r == RefillTokens(tok, lrt, t) IN
  IF ~use_token_bucket THEN <<TRUE, tok, lrt>>
  ELSE IF HasTokens(r[1], n) THEN <<TRUE, r[1] - n, r[2]>>
       ELSE <<FALSE, r[1], r[2]>>

\* --------------------------------------------------------------- exceptions

\* self.requests[0] raises IndexError on an empty deque.
IndexError0(reqs) == reqs = <<>>

\* self.tokens, self.last_refill_time, self.token_refill_rate and
\* self.max_token_capacity exist only if __init__ ran its token-bucket branch
\* (52-57); reading them otherwise raises AttributeError.
TokenAttributes == use_token_bucket

\* a / b; Python raises ZeroDivisionError when b = 0 (see WaitTimeError).
Div(a, b) == IF b = 0 THEN 0 ELSE a \div b

\* ------------------------------------------------ the sliding window (90-93)

\* _cleanup_old_requests that removes nothing.
CleanupNothing(reqs, t) == reqs

RECURSIVE CleanupOldRequests(_, _)
CleanupOldRequests(reqs, t) ==
  IF reqs # <<>> /\ t - Head(reqs) > per_seconds
  THEN CleanupOldRequests(Tail(reqs), t)
  ELSE reqs

\* ---------------------------------------------- _is_request_allowed (95-112)

\* _is_request_allowed with the token bucket consulted before the window: a
\* probe the full window rejects has already paid its tokens.
IsRequestAllowedTokensFirst(reqs, tok, lrt, t, tnow) ==
  LET kept == CleanupOldRequests(reqs, t)
      c == ConsumeTokens(tok, lrt, tnow, tokens_per_request)
  IN  IF use_token_bucket /\ ~c[1] THEN <<FALSE, kept, c[2], c[3]>>
      ELSE IF Len(kept) >= max_requests THEN <<FALSE, kept, c[2], c[3]>>
      ELSE <<TRUE, Append(kept, t), c[2], c[3]>>

\* _is_request_allowed with "len(self.requests) > self.max_requests" for the
\* test of line 103.
IsRequestAllowedOneMore(reqs, tok, lrt, t, tnow) ==
  LET kept == CleanupOldRequests(reqs, t)
      c == ConsumeTokens(tok, lrt, tnow, tokens_per_request)
  IN  IF Len(kept) > max_requests THEN <<FALSE, kept, tok, lrt>>
      ELSE IF use_token_bucket /\ ~c[1] THEN <<FALSE, kept, c[2], c[3]>>
      ELSE <<TRUE, Append(kept, t), c[2], c[3]>>

\* _is_request_allowed that appends the timestamp (line 111) before it asks
\* the token bucket (line 107).
IsRequestAllowedAppendFirst(reqs, tok, lrt, t, tnow) ==
  LET kept == CleanupOldRequests(reqs, t)
      c == ConsumeTokens(tok, lrt, tnow, tokens_per_request)
  IN  IF Len(kept) >= max_requests THEN <<FALSE, kept, tok, lrt>>
      ELSE IF use_token_bucket /\ ~c[1] THEN <<FALSE, Append(kept, t), c[2], c[3]>>
      ELSE <<TRUE, Append(kept, t), c[2], c[3]>>

\* The locked section of _is_request_allowed for a caller that read the clock
\* as t before taking the lock; _refill_tokens reads the clock again, as tnow.
\* <<allowed?, requests, tokens, last_refill_time>>.
IsRequestAllowed(reqs, tok, lrt, t, tnow) ==
  LET kept == CleanupOldRequests(reqs, t)
      c == ConsumeTokens(tok, lrt, tnow, tokens_per_request)
  IN  IF Len(kept) >= max_requests THEN <<FALSE, kept, tok, lrt>>
      ELSE IF use_token_bucket /\ ~c[1] THEN <<FALSE, kept, c[2], c[3]>>
      ELSE <<TRUE, Append(kept, t), c[2], c[3]>>

\* The exception _is_request_allowed raises on the pruned deque, "None" if it
\* returns: line 107 calls _consume_tokens, which reads the bucket, only in
\* token-bucket mode.
AllowedError(kept) ==
  IF Len(kept) >= max_requests THEN "None"
  ELSE IF use_token_bucket /\ ~TokenAttributes THEN "AttributeError"
  ELSE "None"

\* -------------------------------------------------- _get_wait_time (114-136)

\* The exception _get_wait_time raises on the pruned deque and the refilled
\* bucket, "None" if it returns: requests[0] is read under "if self.requests"
\* (124-125), the bucket in token-bucket mode, and line 134 divides by
\* token_refill_rate.
WaitTimeError(kept, tok) ==
  IF kept # <<>> /\ IndexError0(kept) THEN "IndexError"
  ELSE IF use_token_bucket /\ ~TokenAttributes THEN "AttributeError"
  ELSE IF use_token_bucket /\ tok < tokens_per_request /\ token_refill_rate = 0
       THEN "ZeroDivisionError"
  ELSE "None"

\* The wait of the request window on the pruned deque.
WindowWait(kept, t) ==
  IF kept # <<>> /\ Len(kept) >= max_requests
  THEN Max(0, per_seconds - (t - Head(kept)))
  ELSE 0

\* The wait of the token bucket on the refilled bucket.
TokenWait(tok) ==
  IF use_token_bucket /\ tok < tokens_per_request
  THEN Div(tokens_per_request - tok, token_refill_rate)
  ELSE 0

\* <<wait_time, requests, tokens, last_refill_time>>.
GetWaitTime(reqs, tok, lrt, t, tnow) ==
  LET kept == CleanupOldRequests(reqs, t)
      r == RefillTokens(tok, lrt, tnow)
  IN  <<Max(0, Max(WindowWait(kept, t), TokenWait(r[1]))), kept, r[1], r[2]>>

\* --------------------------------------------------------- release (177-181)

\* release() with popleft() for pop(): the oldest timestamp goes.
ReleaseOldest(reqs) ==
  IF reqs # <<>> THEN Tail(reqs) ELSE reqs

\* release() that removes nothing.
ReleaseNothing(reqs) == reqs

Release(reqs) ==
  IF reqs # <<>> THEN SubSeq(reqs, 1, Len(reqs) - 1) ELSE reqs

\* ------------------------------------------------------- get_stats (183-210)

\* get_stats that takes tokens_per_request from the bucket it reports.
GetStatsConsuming(reqs, tok, lrt, t, tnow) ==
  LET kept == CleanupOldRequests(reqs, t)
      c == ConsumeTokens(tok, lrt, tnow, tokens_per_request)
  IN  <<Max(0, IF kept # <<>> THEN Head(kept) + per_seconds - t ELSE 0),
        kept, c[2], c[3]>>

\* get_stats with requests[0] read on every deque.
StatsErrorUnguarded(kept) ==
  IF IndexError0(kept) THEN "IndexError" ELSE "None"

\* The exception get_stats raises on the pruned deque, "None" if it returns:
\* line 198 reads requests[0] only "if self.requests", lines 201-208 read the
\* bucket only in token-bucket mode.
StatsError(kept) ==
  IF kept # <<>> /\ IndexError0(kept) THEN "IndexError"
  ELSE IF use_token_bucket /\ ~TokenAttributes THEN "AttributeError"
  ELSE "None"

\* <<time_until_next_window, requests, tokens, last_refill_time>>.
GetStats(reqs, tok, lrt, t, tnow) ==
  LET kept == CleanupOldRequests(reqs, t)
      r == RefillTokens(tok, lrt, tnow)
  IN  <<Max(0, IF kept # <<>> THEN Head(kept) + per_seconds - t ELSE 0),
        kept, r[1], r[2]>>

\* ------------------------------------------------------------ construction

NoWait == [set |-> FALSE, t |-> 0, v |-> 0]

\* ev holds the event of the step just taken: the locked section that was
\* completed (or the return of acquire, or the time.sleep that was begun with
\* its length as val), who ran it for which operation, what
\* it returned, and the limiter and the histories as they were before it.
Event(k, c, r, v) ==
  [kind |-> k, who |-> c, op |-> op[c], res |-> r, val |-> v,
   t |-> current_time[c], timeout |-> timeout[c], end_time |-> end_time[c],
   requests |-> requests, tokens |-> tokens,
   last_refill_time |-> last_refill_time,
   admitted |-> Len(admitted), budget |-> budget, trip |-> trip,
   lastWait |-> lastWait]

NoEvent ==
  [kind |-> "none", who |-> "none", op |-> "none", res |-> "None", val |-> 0,
   t |-> 0, timeout |-> 0, end_time |-> 0,
   requests |-> <<>>, tokens |-> 0, last_refill_time |-> 0,
   admitted |-> 0, budget |-> 0, trip |-> 0, lastWait |-> NoWait]

\* The state after RateLimiter(**cfg), built at clock reading 0: __init__
\* stores its arguments as they are and raises nothing.
Constructed ==
  /\ now = 0
  /\ requests = <<>>
  /\ tokens = (IF use_token_bucket THEN cfg.max_tokens ELSE 0)
  /\ last_refill_time = 0
  /\ lock = Free
  /\ pc = [c \in Callers |-> "idle"]
  /\ op = [c \in Callers |-> "none"]
  /\ current_time = [c \in Callers |-> 0]
  /\ timeout = [c \in Callers |-> 0]
  /\ end_time = [c \in Callers |-> 0]
  /\ wait_time = [c \in Callers |-> 0]
  /\ sleep_until = [c \in Callers |-> 0]
  /\ ev = NoEvent
  /\ admitted = <<>>
  /\ released = FALSE
  /\ budget = (IF use_token_bucket THEN cfg.max_tokens ELSE 0)
  /\ trip = 0
  /\ lastWait = NoWait

\* No get_rate_limiter call has returned.
NoGet == [kind |-> "none", who |-> "none", name |-> "none", cfg |-> <<>>,
          id |-> 0]

NoArg == [name |-> "none", cfg |-> <<>>]

\* _rate_limiters = {} at import (213).
EmptyRegistry ==
  /\ rate_limiters = [n \in Names |-> 0]
  /\ instances = <<>>
  /\ gpc = [c \in Callers |-> "idle"]
  /\ garg = [c \in Callers |-> NoArg]
  /\ handle = [c \in Callers |-> 0]
  /\ gev = NoGet
  /\ given = [n \in Names |-> {}]
  /\ firstArg = [n \in Names |-> <<>>]

\* tokens.TokenBucket(tokens_per_interval, interval): the arguments of the
\* one bucket, interval in ticks, and the amounts its callers ask for.
tokens_per_interval == 2

interval == 2

Amounts == {1, 2}

NoLocal == [op |-> "none", tokens |-> 0, now |-> 0, time_passed |-> 0]

\* The state after TokenBucket(tokens_per_interval, interval), built at clock
\* reading 0 (212-216).
BucketConstructed ==
  /\ tb_tokens = tokens_per_interval
  /\ last_update = 0
  /\ tb_lock = FALSE
  /\ tb_pc = [c \in Callers |-> "idle"]
  /\ tb_local = [c \in Callers |-> NoLocal]
  /\ tb_consumed = 0

Init == cfg \in Configs /\ Constructed /\ EmptyRegistry /\ BucketConstructed

\* The limiter is built from any arguments, the rejectable ones included.
\* The module is imported: the registry is empty; the limiter of the other
\* specifications is one built with the default arguments of __init__
\* (max_requests = 60, per_seconds = 60.0 s, no token bucket).
DefaultArguments ==
  [max_requests |-> 60, per_seconds |-> 600, max_tokens |-> None,
   tokens_per_request |-> 1, token_refill_rate |-> 1, max_token_capacity |-> None]

InitRegistry ==
  cfg = DefaultArguments /\ Constructed /\ EmptyRegistry /\ BucketConstructed

InitAny ==
  /\ cfg \in Configs \cup Rejectable
  /\ Constructed /\ EmptyRegistry /\ BucketConstructed

\* ------------------------------------------------------------------ history

RECURSIVE Trailing(_, _)
\* The real admission instants that lie within per_seconds of instant t.
Trailing(adm, t) ==
  IF adm # <<>> /\ t - Head(adm) > per_seconds THEN Trailing(Tail(adm), t) ELSE adm

Bool(b) == IF b THEN "True" ELSE "False"

\* A caller's return to its idle loop.
Return(c) ==
  /\ pc' = [pc EXCEPT ![c] = "idle"]
  /\ op' = [op EXCEPT ![c] = "none"]
  /\ current_time' = [current_time EXCEPT ![c] = 0]
  /\ timeout' = [timeout EXCEPT ![c] = 0]
  /\ end_time' = [end_time EXCEPT ![c] = 0]
  /\ wait_time' = [wait_time EXCEPT ![c] = 0]
  /\ sleep_until' = [sleep_until EXCEPT ![c] = 0]

Goto(c, l) == pc' = [pc EXCEPT ![c] = l]

\* A step that completes no locked section and returns nothing.
Quiet == ev' = NoEvent

\* ------------------------------------------------------------------- clock

Tick ==
  /\ now < MaxTime
  /\ now' = now + 1
  /\ admitted' = Trailing(admitted, now + 1)
  /\ budget' = (IF use_token_bucket
                THEN Min(max_token_capacity, budget + token_refill_rate)
                ELSE budget)
  /\ trip' = 0
  /\ Quiet
  /\ UNCHANGED <<bucket, registry, cfg, limiter, lock, pc, op, locals, released, lastWait>>

\* ------------------------------------------------------- the lock (Lock())

LockedSections == {"allowed_lock", "wait_time_lock", "release_lock", "stats_lock"}

BodyOf(l) ==
  CASE l = "allowed_lock" -> "allowed_body"
    [] l = "wait_time_lock" -> "wait_time_body"
    [] l = "release_lock" -> "release_body"
    [] l = "stats_lock" -> "stats_body"

\* A with statement that leaves its body and keeps the lock.
LockKept(c) == c

\* The lock as "with self.lock:" leaves it when caller c leaves the body, by
\* return or by exception: released.
Unlocked(c) == Free

\* "with self.lock:" that enters whether or not the lock is held.
AcquireLockBarging(c) ==
  /\ pc[c] \in LockedSections
  /\ lock' = c
  /\ Goto(c, BodyOf(pc[c]))
  /\ Quiet
  /\ UNCHANGED <<bucket, registry, cfg, now, limiter, op, locals, hist>>

\* "with self.lock:" entered (99, 118, 179, 192).
AcquireLock(c) ==
  /\ pc[c] \in LockedSections
  /\ lock = Free
  /\ lock' = c
  /\ Goto(c, BodyOf(pc[c]))
  /\ Quiet
  /\ UNCHANGED <<bucket, registry, cfg, now, limiter, op, locals, hist>>

\* ----------------------------------------------------- calls of a caller

\* A call whose first statement reads the clock into current_time.
Call(c, o, l) ==
  /\ pc[c] = "idle"
  /\ op' = [op EXCEPT ![c] = o]
  /\ current_time' = [current_time EXCEPT ![c] = now]
  /\ Goto(c, l)
  /\ Quiet
  /\ UNCHANGED <<bucket, registry, cfg, now, limiter, lock, timeout, end_time, wait_time,
                 sleep_until, hist>>

\* acquire(block=False): _is_request_allowed reads the clock (97).
StartTryAcquire(c) == Call(c, "try", "allowed_lock")

\* wait() / acquire(block=True, timeout=None): the first probe reads the clock.
StartWait(c) == Call(c, "wait", "allowed_lock")

\* _get_wait_time() called on its own: it reads the clock (116).
StartGetWaitTime(c) == Call(c, "wait_time", "wait_time_lock")

\* get_stats(): it reads the clock (190).
StartGetStats(c) == Call(c, "stats", "stats_lock")

\* acquire(block=True, timeout=T): end_time = time.time() + timeout (168).
StartAcquire(c, T) ==
  /\ pc[c] = "idle"
  /\ op' = [op EXCEPT ![c] = "acquire"]
  /\ timeout' = [timeout EXCEPT ![c] = T]
  /\ end_time' = [end_time EXCEPT ![c] = now + T]
  /\ Goto(c, "acquire_check")
  /\ Quiet
  /\ UNCHANGED <<bucket, registry, cfg, now, limiter, lock, current_time, wait_time,
                 sleep_until, hist>>

StartRelease(c) ==
  /\ pc[c] = "idle"
  /\ op' = [op EXCEPT ![c] = "release"]
  /\ Goto(c, "release_lock")
  /\ Quiet
  /\ UNCHANGED <<bucket, registry, cfg, now, limiter, lock, locals, hist>>

\* An exception raised in a locked section: the with statement releases the
\* lock, the pruning and the refill that preceded the raise stay, and the
\* exception propagates out of the caller's public operation.
Raise(c, k, err, kept, tok, lrt) ==
  /\ requests' = kept
  /\ tokens' = tok
  /\ last_refill_time' = lrt
  /\ lock' = Unlocked(c)
  /\ ev' = Event(k, c, err, 0)
  /\ trip' = 0
  /\ Return(c)
  /\ UNCHANGED <<bucket, registry, cfg, now, admitted, released, budget, lastWait>>

\* ------------------------------------- _is_request_allowed, locked (99-112)

AllowedBody(c) ==
  LET r == IsRequestAllowed(requests, tokens, last_refill_time,
                            current_time[c], now)
      kept == CleanupOldRequests(requests, current_time[c])
      err == AllowedError(kept)
  IN  IF err # "None"
      THEN /\ pc[c] = "allowed_body"
           /\ Raise(c, "allowed", err, kept, tokens, last_refill_time)
      ELSE
      /\ pc[c] = "allowed_body"
      /\ requests' = r[2]
      /\ tokens' = r[3]
      /\ last_refill_time' = r[4]
      /\ lock' = Unlocked(c)
      /\ ev' = Event("allowed", c, Bool(r[1]), Len(kept))
      /\ admitted' = (IF r[1] /\ ~released THEN Append(admitted, now) ELSE admitted)
      /\ budget' = (IF r[1] /\ use_token_bucket
                    THEN budget - tokens_per_request ELSE budget)
      /\ lastWait' = (IF r[1] THEN NoWait ELSE lastWait)
      /\ trip' = (IF r[1] /\ Len(r[2]) = 1 THEN 1 ELSE 0)
      /\ IF r[1] \/ op[c] = "try"
         THEN Return(c)                                   \* 112, 146, 171, 175
         ELSE /\ Goto(c, IF op[c] = "wait" THEN "wait_time_read"  \* 148
                         ELSE "acquire_sleep")                    \* 172
              /\ UNCHANGED <<op, locals>>
      /\ UNCHANGED <<bucket, registry, cfg, now, released>>

\* The next probe of a retry loop reads the clock (97).
AllowedRead(c) ==
  /\ pc[c] = "allowed_read"
  /\ current_time' = [current_time EXCEPT ![c] = now]
  /\ Goto(c, "allowed_lock")
  /\ Quiet
  /\ UNCHANGED <<bucket, registry, cfg, now, limiter, lock, op, timeout, end_time, wait_time,
                 sleep_until, hist>>

\* ------------------------------------------ _get_wait_time, locked (118-136)

\* wait(): wait_time = self._get_wait_time() reads the clock (116).
WaitTimeRead(c) ==
  /\ pc[c] = "wait_time_read"
  /\ current_time' = [current_time EXCEPT ![c] = now]
  /\ Goto(c, "wait_time_lock")
  /\ Quiet
  /\ UNCHANGED <<bucket, registry, cfg, now, limiter, lock, op, timeout, end_time, wait_time,
                 sleep_until, hist>>

WaitTimeBody(c) ==
  LET g == GetWaitTime(requests, tokens, last_refill_time, current_time[c], now)
      err == WaitTimeError(g[2], g[3])
  IN  IF err # "None"
      THEN /\ pc[c] = "wait_time_body"
           /\ Raise(c, "wait_time", err, g[2], g[3], g[4])
      ELSE
      /\ pc[c] = "wait_time_body"
      /\ requests' = g[2]
      /\ tokens' = g[3]
      /\ last_refill_time' = g[4]
      /\ lock' = Unlocked(c)
      /\ ev' = Event("wait_time", c, "None", g[1])
      /\ lastWait' = [set |-> TRUE, t |-> current_time[c], v |-> g[1]]
      /\ trip' = 0
      /\ IF op[c] = "wait_time"
         THEN Return(c)
         ELSE /\ wait_time' = [wait_time EXCEPT ![c] = g[1]]
              /\ Goto(c, IF g[1] > 0 THEN "wait_sleep"            \* 149-150
                         ELSE "allowed_read")                     \* 144-145
              /\ UNCHANGED <<op, current_time, timeout, end_time, sleep_until>>
      /\ UNCHANGED <<bucket, registry, cfg, now, admitted, released, budget>>

\* ----------------------------------------------------------- wait (138-150)

\* time.sleep(wait_time) begins.
WaitSleep(c) ==
  /\ pc[c] = "wait_sleep"
  /\ sleep_until' = [sleep_until EXCEPT ![c] = now + wait_time[c]]
  /\ wait_time' = [wait_time EXCEPT ![c] = 0]
  /\ Goto(c, "sleeping")
  /\ ev' = Event("sleep", c, "None", wait_time[c])
  /\ UNCHANGED <<bucket, registry, cfg, now, limiter, lock, op, current_time, timeout, end_time,
                 hist>>

\* time.sleep returns once the clock has reached the end of the sleep.
Wake(c) ==
  /\ pc[c] = "sleeping"
  /\ now >= sleep_until[c]
  /\ sleep_until' = [sleep_until EXCEPT ![c] = 0]
  /\ Goto(c, IF op[c] = "wait" THEN "allowed_read" ELSE "acquire_check")
  /\ Quiet
  /\ UNCHANGED <<bucket, registry, cfg, now, limiter, lock, op, current_time, timeout, end_time,
                 wait_time, hist>>

\* -------------------------------------------------------- acquire (167-173)

\* while time.time() < end_time: ... return False
AcquireCheck(c) ==
  /\ pc[c] = "acquire_check"
  /\ IF now < end_time[c]
     THEN /\ Goto(c, "allowed_read")
          /\ Quiet
          /\ UNCHANGED <<op, locals>>
     ELSE /\ Return(c)
          /\ ev' = Event("acquire", c, "False", 0)
  /\ trip' = 0
  /\ UNCHANGED <<bucket, registry, cfg, now, limiter, lock, admitted, released, budget, lastWait>>

\* time.sleep(min(0.1, end_time - time.time())): a negative length raises
\* ValueError out of acquire.
AcquireSleep(c) ==
  LET length == Min(RetrySleep, end_time[c] - now)
  IN  /\ pc[c] = "acquire_sleep"
      /\ IF length < 0
         THEN /\ Return(c)
              /\ ev' = Event("acquire", c, "ValueError", 0)
         ELSE /\ sleep_until' = [sleep_until EXCEPT ![c] = now + length]
              /\ Goto(c, "sleeping")
              /\ ev' = Event("sleep", c, "None", length)
              /\ UNCHANGED <<op, current_time, timeout, end_time, wait_time>>
      /\ trip' = 0
      /\ UNCHANGED <<bucket, registry, cfg, now, limiter, lock, admitted, released, budget,
                     lastWait>>

\* ------------------------------------------------ release, locked (179-181)

ReleaseBody(c) ==
  /\ pc[c] = "release_body"
  /\ requests' = Release(requests)
  /\ lock' = Unlocked(c)
  /\ ev' = Event("release", c, "None", Len(requests) - Len(Release(requests)))
  /\ released' = (released \/ requests # <<>>)
  /\ admitted' = (IF requests # <<>> THEN <<>> ELSE admitted)
  /\ lastWait' = NoWait
  /\ trip' = (IF trip = 1 THEN 2 ELSE 0)
  /\ Return(c)
  /\ UNCHANGED <<bucket, registry, cfg, now, tokens, last_refill_time, budget>>

\* ---------------------------------------------- get_stats, locked (192-210)

StatsBody(c) ==
  LET s == GetStats(requests, tokens, last_refill_time, current_time[c], now)
      kept == CleanupOldRequests(requests, current_time[c])
      err == StatsError(kept)
  IN  IF err # "None"
      THEN /\ pc[c] = "stats_body"
           /\ Raise(c, "stats", err, kept, tokens, last_refill_time)
      ELSE
      /\ pc[c] = "stats_body"
      /\ requests' = s[2]
      /\ tokens' = s[3]
      /\ last_refill_time' = s[4]
      /\ lock' = Unlocked(c)
      /\ ev' = Event("stats", c, "None", s[1])
      /\ trip' = 0
      /\ Return(c)
      /\ UNCHANGED <<bucket, registry, cfg, now, admitted, released, budget, lastWait>>

\* ------------------------------------------------ get_rate_limiter (213-248)

\* The arguments the callers pass to get_rate_limiter: pure sliding windows.
RegistryConfigs == {k \in Configs : k.max_tokens = None}

\* "name in _rate_limiters" that never finds the name.
InRegistryNever(reg, n) == FALSE

\* name in _rate_limiters
InRegistry(reg, n) == reg[n] # 0

RECURSIVE PruneWindow(_, _, _)
\* _cleanup_old_requests of an object whose window is per.
PruneWindow(per, reqs, t) ==
  IF reqs # <<>> /\ t - Head(reqs) > per
  THEN PruneWindow(per, Tail(reqs), t)
  ELSE reqs

\* _is_request_allowed of a pure sliding-window object at clock reading t:
\* the object after the probe.
Probe(inst, t) ==
  LET kept == PruneWindow(inst.cfg.per_seconds, inst.requests, t)
  IN  IF Len(kept) >= inst.cfg.max_requests
      THEN [inst EXCEPT !.requests = kept]
      ELSE [inst EXCEPT !.requests = Append(kept, t)]

limiterVars == <<bucket, cfg, now, limiter, lock, pc, op, locals, ev, hist>>

\* get_rate_limiter(n, **k) is called.
StartGet(c, n, k) ==
  /\ gpc[c] = "idle"
  /\ Len(instances) + Cardinality({d \in Callers : gpc[d] \in {"check", "store"}})
       < MaxInstances
  /\ garg' = [garg EXCEPT ![c] = [name |-> n, cfg |-> k]]
  /\ gpc' = [gpc EXCEPT ![c] = "check"]
  /\ firstArg' = (IF firstArg[n] = <<>> THEN [firstArg EXCEPT ![n] = <<k>>]
                  ELSE firstArg)
  /\ gev' = NoGet
  /\ UNCHANGED <<limiterVars, rate_limiters, instances, handle, given>>

\* get_rate_limiter(n, **k) is called while no other call of it is running.
StartGetAlone(c, n, k) ==
  /\ \A d \in Callers : gpc[d] = "idle"
  /\ StartGet(c, n, k)

\* if name not in _rate_limiters: (239)
GetCheck(c) ==
  /\ gpc[c] = "check"
  /\ gpc' = [gpc EXCEPT ![c] =
               IF InRegistry(rate_limiters, garg[c].name) THEN "return"
               ELSE "store"]
  /\ gev' = NoGet
  /\ UNCHANGED <<limiterVars, rate_limiters, instances, garg, handle, given,
                 firstArg>>

\* _rate_limiters[name] = RateLimiter(...) (240-247)
GetStore(c) ==
  /\ gpc[c] = "store"
  /\ instances' = Append(instances, [name |-> garg[c].name, cfg |-> garg[c].cfg,
                                     requests |-> <<>>])
  /\ rate_limiters' = [rate_limiters EXCEPT ![garg[c].name] = Len(instances) + 1]
  /\ gpc' = [gpc EXCEPT ![c] = "return"]
  /\ gev' = NoGet
  /\ UNCHANGED <<limiterVars, garg, handle, given, firstArg>>

\* return _rate_limiters[name] (248)
GetReturn(c) ==
  LET n == garg[c].name
      id == rate_limiters[n]
  IN  /\ gpc[c] = "return"
      /\ handle' = [handle EXCEPT ![c] = id]
      /\ given' = [given EXCEPT ![n] = given[n] \cup {id}]
      /\ gev' = [kind |-> "get", who |-> c, name |-> n, cfg |-> garg[c].cfg,
                 id |-> id]
      /\ garg' = [garg EXCEPT ![c] = NoArg]
      /\ gpc' = [gpc EXCEPT ![c] = "idle"]
      /\ UNCHANGED <<limiterVars, rate_limiters, instances, firstArg>>

\* A caller probes the object it was given: acquire(block=False) on it.
UseLimiter(c) ==
  /\ gpc[c] = "idle"
  /\ handle[c] # 0
  /\ instances' = [instances EXCEPT ![handle[c]] = Probe(@, now)]
  /\ gev' = NoGet
  /\ UNCHANGED <<limiterVars, rate_limiters, gpc, garg, handle, given, firstArg>>

\* A caller probes its object while no call of get_rate_limiter is running.
UseLimiterAlone(c) ==
  /\ \A d \in Callers : gpc[d] = "idle"
  /\ UseLimiter(c)

\* ---------------------------------------------------------- specifications

\* Every caller may call every operation.
Next ==
  \/ Tick
  \/ \E c \in Callers : StartTryAcquire(c)
  \/ \E c \in Callers : StartWait(c)
  \/ \E c \in Callers : \E T \in Timeouts : StartAcquire(c, T)
  \/ \E c \in Callers : StartRelease(c)
  \/ \E c \in Callers : StartGetWaitTime(c)
  \/ \E c \in Callers : StartGetStats(c)
  \/ \E c \in Callers : AcquireLock(c)
  \/ \E c \in Callers : AllowedBody(c)
  \/ \E c \in Callers : AllowedRead(c)
  \/ \E c \in Callers : WaitTimeRead(c)
  \/ \E c \in Callers : WaitTimeBody(c)
  \/ \E c \in Callers : WaitSleep(c)
  \/ \E c \in Callers : Wake(c)
  \/ \E c \in Callers : AcquireCheck(c)
  \/ \E c \in Callers : AcquireSleep(c)
  \/ \E c \in Callers : ReleaseBody(c)
  \/ \E c \in Callers : StatsBody(c)

Spec == Init /\ [][Next]_vars

\* The callers probe and release: acquire(block=False) and release().
NextProbe ==
  \/ Tick
  \/ \E c \in Callers : StartTryAcquire(c)
  \/ \E c \in Callers : StartRelease(c)
  \/ \E c \in Callers : AcquireLock(c)
  \/ \E c \in Callers : AllowedBody(c)
  \/ \E c \in Callers : ReleaseBody(c)

SpecProbe == Init /\ [][NextProbe]_vars

\* The callers probe, release and ask for the wait time.
NextEstimate ==
  \/ Tick
  \/ \E c \in Callers : StartTryAcquire(c)
  \/ \E c \in Callers : StartRelease(c)
  \/ \E c \in Callers : StartGetWaitTime(c)
  \/ \E c \in Callers : AcquireLock(c)
  \/ \E c \in Callers : AllowedBody(c)
  \/ \E c \in Callers : WaitTimeBody(c)
  \/ \E c \in Callers : ReleaseBody(c)

SpecEstimate == Init /\ [][NextEstimate]_vars

\* The callers probe and release while the callers of Blocking acquire with a
\* timeout.
NextTimed ==
  \/ Tick
  \/ \E c \in Callers : StartTryAcquire(c)
  \/ \E c \in Callers : StartRelease(c)
  \/ \E c \in Blocking : \E T \in Timeouts : StartAcquire(c, T)
  \/ \E c \in Callers : AcquireLock(c)
  \/ \E c \in Callers : AllowedBody(c)
  \/ \E c \in Callers : AllowedRead(c)
  \/ \E c \in Callers : Wake(c)
  \/ \E c \in Callers : AcquireCheck(c)
  \/ \E c \in Callers : AcquireSleep(c)
  \/ \E c \in Callers : ReleaseBody(c)

SpecTimed == Init /\ [][NextTimed]_vars

\* The callers probe, release and ask for the statistics.
NextStats ==
  \/ Tick
  \/ \E c \in Callers : StartTryAcquire(c)
  \/ \E c \in Callers : StartRelease(c)
  \/ \E c \in Callers : StartGetStats(c)
  \/ \E c \in Callers : AcquireLock(c)
  \/ \E c \in Callers : AllowedBody(c)
  \/ \E c \in Callers : ReleaseBody(c)
  \/ \E c \in Callers : StatsBody(c)

SpecStats == Init /\ [][NextStats]_vars

\* The limiter is built from any arguments; the callers probe, release and
\* ask for the wait time.
SpecAnyConfig == InitAny /\ [][NextEstimate]_vars

\* The callers call get_rate_limiter concurrently and probe what they get.
NextRegistry ==
  \/ \E c \in Callers : \E n \in Names : \E k \in RegistryConfigs : StartGet(c, n, k)
  \/ \E c \in Callers : GetCheck(c)
  \/ \E c \in Callers : GetStore(c)
  \/ \E c \in Callers : GetReturn(c)
  \/ \E c \in Callers : UseLimiter(c)

SpecRegistry == InitRegistry /\ [][NextRegistry]_vars

\* The callers call get_rate_limiter one call after the other.
NextRegistrySeq ==
  \/ \E c \in Callers : \E n \in Names : \E k \in RegistryConfigs :
       StartGetAlone(c, n, k)
  \/ \E c \in Callers : GetCheck(c)
  \/ \E c \in Callers : GetStore(c)
  \/ \E c \in Callers : GetReturn(c)
  \/ \E c \in Callers : UseLimiterAlone(c)

SpecRegistrySeq == InitRegistry /\ [][NextRegistrySeq]_vars

\* The callers probe and release, the callers of Blocking acquire with a
\* timeout and the other callers take statistics.
NextTimedStats ==
  \/ NextTimed
  \/ \E c \in Callers \ Blocking : StartGetStats(c)
  \/ \E c \in Callers \ Blocking : StatsBody(c)

SpecTimedStats == Init /\ [][NextTimedStats]_vars

\* One caller calls wait(), again and again; its thread is scheduled fairly
\* and the clock advances (up to MaxTime).
WaitStep(c) ==
  \/ AcquireLock(c)
  \/ AllowedBody(c)
  \/ AllowedRead(c)
  \/ WaitTimeRead(c)
  \/ WaitTimeBody(c)
  \/ WaitSleep(c)
  \/ Wake(c)

NextWait ==
  \/ Tick
  \/ \E c \in Blocking : StartWait(c)
  \/ \E c \in Blocking : WaitStep(c)

SpecWait ==
  /\ Init
  /\ [][NextWait]_vars
  /\ WF_vars(Tick)
  /\ \A c \in Blocking : WF_vars(WaitStep(c))

\* ------------------------------------------------------------------ claims

\* The limiter's event was a probe (_is_request_allowed) just completed.
Probed == ev.kind = "allowed"

\* C1: while release() has removed nothing, at most max_requests of the
\* probes that return within any real-time interval of length per_seconds
\* return True (admitted holds the real instants of the admissions that lie
\* within per_seconds of now).
WindowLimit == ~released => Len(admitted) <= max_requests

\* C2: in token-bucket mode a probe that finds the window not full is admitted
\* exactly when a bucket that starts at max_tokens, gains token_refill_rate
\* per unit of real time up to the capacity and loses tokens_per_request per
\* admission holds tokens_per_request: once drained, probes fail until the
\* refill has made up the difference, and each admission spends that much of
\* the elapsed budget, which is never overdrawn.
TokenBucketPaced ==
  /\ use_token_bucket => budget >= 0
  /\ (Probed /\ use_token_bucket /\ ev.val < max_requests)
       => (ev.res = "True" <=> ev.budget >= tokens_per_request)

\* A probe was admitted on a bucket that had been drained below
\* tokens_per_request and refilled by the passage of time.
TokenBucketRefilled ==
  /\ Probed /\ use_token_bucket /\ ev.res = "True"
  /\ ev.tokens < tokens_per_request
  /\ ev.tokens < max_token_capacity

\* C3: in pure sliding-window mode, with nothing released, a probe returns
\* True whenever fewer than max_requests admissions were made within the
\* trailing per_seconds of real time.
WindowExpiry ==
  (Probed /\ ~use_token_bucket /\ ~released /\ ev.admitted < max_requests)
    => ev.res = "True"

\* The probe read its clock at the instant its locked section ran, right after
\* an admission that was the only occupant and the release() that followed it
\* at that same instant.
RoundTrip == Probed /\ ev.trip = 2 /\ ev.t = now

\* C5 as stated: for every limiter, the probe after the round trip returns True.
ReleaseRoundTrip == RoundTrip => ev.res = "True"

\* C5 amended: the probe after the round trip returns True when the limiter
\* has no token bucket or its bucket still holds tokens_per_request tokens.
ReleaseRoundTripWithTokens ==
  (RoundTrip /\ (use_token_bucket => ev.tokens >= tokens_per_request))
    => ev.res = "True"

\* The round trip ended in an admission, in token-bucket mode.
RoundTripAdmitted == RoundTrip /\ use_token_bucket /\ ev.res = "True"

\* C6: release() removes exactly the last timestamp of a non-empty deque,
\* leaves an empty one empty, and changes neither tokens nor last_refill_time.
ReleaseFrame ==
  ev.kind = "release" =>
    /\ Len(requests) = (IF ev.requests = <<>> THEN 0 ELSE Len(ev.requests) - 1)
    /\ \A i \in 1..Len(requests) : requests[i] = ev.requests[i]
    /\ tokens = ev.tokens
    /\ last_refill_time = ev.last_refill_time

\* release() ran on a deque of two different timestamps.
ReleasedNewest ==
  /\ ev.kind = "release"
  /\ Len(ev.requests) = 2
  /\ ev.requests[1] # ev.requests[2]

\* The limiter's event was a wait-time estimate (_get_wait_time).
Estimated == ev.kind = "wait_time"

\* acquire(block=True, timeout=T) returned False.
TimedOut == ev.kind = "acquire" /\ ev.res = "False"

\* C4: acquire(timeout=0) returns what a single probe at that instant would
\* return and leaves the limiter as that probe would.
AcquireZeroIsProbe ==
  (ev.kind = "acquire" /\ ev.timeout = 0) =>
    LET r == IsRequestAllowed(ev.requests, ev.tokens, ev.last_refill_time,
                              now, now)
    IN  /\ ev.res = Bool(r[1])
        /\ requests = r[2]
        /\ tokens = r[3]
        /\ last_refill_time = r[4]

\* C7: of two wait-time estimates with no admission and no release between
\* them, the one with the later (or the same) clock reading is not the larger.
WaitTimeMonotone ==
  (Estimated /\ ev.lastWait.set /\ ev.lastWait.t <= ev.t)
    => ev.val <= ev.lastWait.v

\* The oldest timestamp of a non-empty deque.
Oldest(reqs) ==
  CHOOSE x \in {reqs[i] : i \in 1..Len(reqs)} :
    \A i \in 1..Len(reqs) : x <= reqs[i]

\* C8: the wait-time estimate is max(w, k), never negative, with
\* w = per_seconds - (now - oldest timestamp) when the pruned window holds at
\* least max_requests entries (and has an oldest one), else 0, and
\* k = (tokens_per_request - tokens) / token_refill_rate when the refilled
\* bucket holds less than tokens_per_request, else 0; now is the estimate's
\* clock reading.
WaitTimeFormula ==
  Estimated =>
    LET w == IF requests # <<>> /\ Len(requests) >= max_requests
             THEN per_seconds - (ev.t - Oldest(requests)) ELSE 0
        k == IF use_token_bucket /\ tokens < tokens_per_request
             THEN (tokens_per_request - tokens) \div token_refill_rate ELSE 0
    IN  ev.val = Max(w, k) /\ ev.val >= 0

\* The estimate is that maximum when w is taken from the front of the deque,
\* the entry the pruning tests, which is the oldest one while the deque is in
\* ascending order.
WaitTimeFormulaOfFront ==
  Estimated =>
    LET w == IF requests # <<>> /\ Len(requests) >= max_requests
             THEN per_seconds - (ev.t - Head(requests)) ELSE 0
        k == IF use_token_bucket /\ tokens < tokens_per_request
             THEN (tokens_per_request - tokens) \div token_refill_rate ELSE 0
    IN  ev.val = Max(w, k) /\ ev.val >= 0

\* C9: acquire(timeout=T) returns False only once the clock has reached
\* end_time, and that return changes nothing; a rejected probe of it appends no
\* timestamp (the deque only loses entries from its front), subtracts no
\* tokens and does not end the call; acquire returns True only from an
\* admitted probe, which has appended its one timestamp and spent exactly
\* tokens_per_request of the bucket.
TimedAcquire ==
  /\ TimedOut =>
       /\ now >= ev.end_time
       /\ requests = ev.requests
       /\ tokens = ev.tokens
       /\ last_refill_time = ev.last_refill_time
  /\ (Probed /\ ev.op = "acquire" /\ ev.res = "False") =>
       /\ pc[ev.who] # "idle"
       /\ Len(requests) <= Len(ev.requests)
       /\ requests = SubSeq(ev.requests, Len(ev.requests) - Len(requests) + 1,
                            Len(ev.requests))
       /\ use_token_bucket => tokens >= Min(ev.tokens, max_token_capacity)
       /\ budget = ev.budget
  /\ (ev.op = "acquire" /\ pc[ev.who] = "idle" /\ ev.res = "True") =>
       /\ Probed
       /\ requests # <<>>
       /\ requests[Len(requests)] = ev.t
       /\ Len(requests) = ev.val + 1
       /\ use_token_bucket =>
            tokens = budget /\ budget = ev.budget - tokens_per_request

\* acquire(timeout=T), T > 0, returned False after a probe of it, made at a
\* clock reading after the construction, had been rejected.
TimedOutAfterProbe == TimedOut /\ ev.timeout > 0 /\ ev.t > 0

\* The configurations the specification of the limiter counts as valid:
\* positive window, positive refill rate, capacity >= tokens_per_request.
ValidConfig ==
  /\ per_seconds > 0
  /\ use_token_bucket =>
       token_refill_rate > 0 /\ max_token_capacity >= tokens_per_request

\* wait() is pending for some caller.
Waiting == \E c \in Blocking : op[c] = "wait"

\* The clock of the model ends before the wait can: a caller sleeps past
\* MaxTime, or at MaxTime the deque still holds a timestamp that has not
\* expired or the bucket has not yet refilled to tokens_per_request.
ClockEnds ==
  \/ \E c \in Blocking : pc[c] = "sleeping" /\ sleep_until[c] > MaxTime
  \/ /\ now = MaxTime
     /\ \/ \E i \in 1..Len(requests) : MaxTime - requests[i] <= per_seconds
        \/ /\ use_token_bucket
           /\ max_token_capacity >= tokens_per_request
           /\ RefillTokens(tokens, last_refill_time, MaxTime)[1]
                < tokens_per_request

\* C10 as stated: under every valid configuration a pending wait() of a caller
\* without competitors eventually returns (as far as the clock reaches).
WaitReturns == (ValidConfig /\ Waiting) ~> (~Waiting \/ ClockEnds)

\* C10 amended: the same under every valid configuration with max_requests >= 1.
WaitReturnsWhenAdmitting ==
  (ValidConfig /\ max_requests >= 1 /\ Waiting) ~> (~Waiting \/ ClockEnds)

\* wait() returned from a probe admitted on a deque whose entries had expired
\* while it waited.
WaitedAndReturned ==
  /\ Probed /\ ev.op = "wait" /\ ev.res = "True"
  /\ ev.requests # <<>> /\ Len(ev.requests) >= max_requests
  /\ ValidConfig

\* C11: acquire(block=True, timeout=T) ends by returning True or False and
\* never by an exception, however the clock advances between the deadline
\* check, the probe and the computation of the sleep length.
AcquireNeverRaises ==
  (ev.op = "acquire" /\ pc[ev.who] = "idle") => ev.res \in {"True", "False"}

\* The limiter's event was a get_stats() just completed.
StatsTaken == ev.kind = "stats"

\* C12: under every valid configuration every tryAcquire and every get_stats
\* returns a result and raises nothing, whatever the state of the window and
\* of the bucket and whatever the interleaving with other calls.
ProbeAndStatsTotal ==
  (ValidConfig /\ (StatsTaken \/ (Probed /\ ev.op = "try")))
    => ev.res \in {"True", "False", "None"}

\* get_stats returned on a deque that its pruning had emptied.
StatsOnEmptiedWindow ==
  /\ ValidConfig /\ StatsTaken /\ ev.res = "None"
  /\ ev.requests # <<>> /\ requests = <<>>

\* No call ends in an exception that the configuration causes (the division
\* by token_refill_rate of line 134).
NoCallFailsOnConfiguration == ev.res # "ZeroDivisionError"

\* C13: a limiter exists only for a valid configuration, the constructor
\* having raised ConfigurationError for every other one, and no later call
\* fails because of the configuration.
ConfigurationChecked == ValidConfig /\ NoCallFailsOnConfiguration

\* The objects get_rate_limiter has constructed for name n.
BuiltFor(n) == {i \in 1..Len(instances) : instances[i].name = n}

\* A step of a get_rate_limiter call for a name that has an entry.
LaterCallStep ==
  \E c \in Callers :
    /\ gpc'[c] # gpc[c]
    /\ LET n == IF gpc[c] = "idle" THEN garg'[c].name ELSE garg[c].name
       IN  rate_limiters[n] # 0

\* C14: when the calls of get_rate_limiter follow one another, every call for
\* a name returns the one object built for it, that object has the arguments
\* of the first call for the name, and no step of a later call changes an
\* object or the entry of the name.
FirstWriterWins ==
  /\ [](\A n \in Names : Cardinality(given[n]) <= 1 /\ Cardinality(BuiltFor(n)) <= 1)
  /\ [](gev.kind = "get" => instances[gev.id].cfg = firstArg[gev.name][1])
  /\ [][LaterCallStep =>
          instances' = instances /\ rate_limiters' = rate_limiters]_vars

\* A call with other arguments than the first call for its name returned an
\* object that has admitted a request.
LaterCallReturned ==
  /\ gev.kind = "get"
  /\ gev.cfg # firstArg[gev.name][1]
  /\ instances[gev.id].requests # <<>>

\* C15: under concurrent calls of get_rate_limiter at most one object is
\* constructed for a name and every caller of the name is given that object.
RegistryOnce ==
  \A n \in Names : Cardinality(BuiltFor(n)) <= 1 /\ Cardinality(given[n]) <= 1

\* The deque is what the call found without some entries of its front, each
\* of them older than per_seconds at the call's clock reading.
PrunedOnly ==
  /\ Len(requests) <= Len(ev.requests)
  /\ requests = SubSeq(ev.requests, Len(ev.requests) - Len(requests) + 1,
                       Len(ev.requests))
  /\ \A i \in 1..(Len(ev.requests) - Len(requests)) :
       ev.t - ev.requests[i] > per_seconds

\* The bucket is what the refill pass makes of the bucket the call found.
RefilledOnly ==
  <<tokens, last_refill_time>> = RefillTokens(ev.tokens, ev.last_refill_time, now)

\* C16 as stated: get_stats leaves the admissions sequence unchanged and
\* changes tokens and last_refill_time only by the refill pass.
StatsReadOnly ==
  (StatsTaken /\ ev.res = "None") => requests = ev.requests /\ RefilledOnly

\* C16 amended: get_stats appends no timestamp and removes only expired ones
\* from the front of the admissions sequence, and changes tokens and
\* last_refill_time only by the refill pass.
StatsPrunesAndRefills ==
  (StatsTaken /\ ev.res = "None") => PrunedOnly /\ RefilledOnly

\* get_stats pruned the deque and refilled the bucket.
StatsPrunedAndRefilled ==
  /\ StatsTaken /\ use_token_bucket
  /\ requests # ev.requests
  /\ tokens # ev.tokens

\* C17: time_until_next_window of get_stats is the window component of the
\* wait time on the same state at the same clock reading: 0 while
\* requests_in_window < max_requests, per_seconds - (now - oldest timestamp)
\* when the window is full.
StatsWindowWait ==
  (StatsTaken /\ ev.res = "None") => ev.val = WindowWait(requests, ev.t)

\* A probe (of tryAcquire or of a timed acquire) was rejected.
Rejected == Probed /\ ev.res = "False"

\* C18 as stated: a rejected probe leaves the admissions sequence, tokens and
\* last_refill_time exactly as they were before the call.
FailedProbeNoEffect ==
  Rejected =>
    /\ requests = ev.requests
    /\ tokens = ev.tokens
    /\ last_refill_time = ev.last_refill_time

\* C18 amended: a rejected probe appends no timestamp and takes no tokens;
\* it only prunes expired timestamps from the front of the admissions
\* sequence and, when the window is not full, runs the refill pass.
FailedProbePrunesAndRefills ==
  Rejected =>
    /\ PrunedOnly
    /\ \/ tokens = ev.tokens /\ last_refill_time = ev.last_refill_time
       \/ Len(requests) < max_requests /\ RefilledOnly

\* A probe of a timed acquire was rejected by the bucket after the refill pass
\* had added tokens.
RejectedAfterRefill ==
  /\ Rejected /\ ev.op = "acquire"
  /\ use_token_bucket /\ tokens > ev.tokens

\* C19: in token-bucket mode 0 <= tokens <= max_token_capacity in every state
\* from the end of __init__ on, whatever max_tokens and max_token_capacity.
TokenInvariant ==
  use_token_bucket => 0 <= tokens /\ tokens <= max_token_capacity

RECURSIVE Ascending(_)
\* The timestamps of a deque are in ascending order.
Ascending(reqs) ==
  \/ Len(reqs) <= 1
  \/ reqs[1] <= reqs[2] /\ Ascending(Tail(reqs))

\* C20: the admissions sequence is in ascending order in every state, and
\* right after the pruning of a probe, an estimate or a get_stats every
\* timestamp it kept lies within [now - per_seconds, now] of the call's now.
OrderingInvariant ==
  /\ Ascending(requests)
  /\ (Rejected \/ StatsTaken) =>
       \A i \in 1..Len(requests) :
         ev.t - per_seconds <= requests[i] /\ requests[i] <= ev.t

\* C21: in every state the deque holds at most max_requests timestamps,
\* whatever the interleaving of probes, timed acquires, releases and
\* statistics.
OccupancyInvariant == Len(requests) <= max_requests

\* A probe was admitted into the last free slot of a window of two or more.
WindowFilled ==
  /\ Probed /\ ev.res = "True"
  /\ max_requests >= 2 /\ Len(requests) = max_requests

\* C22: a probe tests the window before the bucket and appends last: rejected
\* by the bucket (the window was not full) it appends no timestamp; rejected
\* by the full window it leaves tokens and last_refill_time alone; admitted it
\* appends exactly its one timestamp and takes exactly tokens_per_request
\* from the refilled bucket.
CheckOrderAndCommit ==
  /\ (Rejected /\ ev.val < max_requests) => PrunedOnly
  /\ (Rejected /\ ev.val >= max_requests) =>
       tokens = ev.tokens /\ last_refill_time = ev.last_refill_time
  /\ (Probed /\ ev.res = "True") =>
       /\ ev.val < max_requests
       /\ Len(requests) = ev.val + 1
       /\ requests[Len(requests)] = ev.t
       /\ SubSeq(requests, 1, ev.val)
            = SubSeq(ev.requests, Len(ev.requests) - ev.val + 1, Len(ev.requests))
       /\ use_token_bucket =>
            tokens = RefillTokens(ev.tokens, ev.last_refill_time, now)[1]
                       - tokens_per_request

\* A probe was rejected by the token bucket while the window had room.
RejectedByBucket ==
  /\ Rejected /\ use_token_bucket
  /\ ev.val < max_requests

\* ------------------------------------- the locked sections, statement-wise

\* The labels at which a caller is inside "with self.lock:".
CriticalSections ==
  {"allowed_body", "allowed_append", "wait_time_body", "release_body",
   "stats_body"}

\* _is_request_allowed up to the return False of 104 or 108, or an exception.
AllowedReject(c) ==
  /\ \/ AllowedError(CleanupOldRequests(requests, current_time[c])) # "None"
     \/ ~IsRequestAllowed(requests, tokens, last_refill_time,
                          current_time[c], now)[1]
  /\ AllowedBody(c)

\* _is_request_allowed of an admitted probe up to line 110: the deque is
\* pruned (100), the window has room (103), the bucket is refilled and
\* tokens_per_request are taken (107); the timestamp is not appended yet.
AllowedTake(c) ==
  LET r == IsRequestAllowed(requests, tokens, last_refill_time,
                            current_time[c], now)
      kept == CleanupOldRequests(requests, current_time[c])
  IN  /\ pc[c] = "allowed_body"
      /\ AllowedError(kept) = "None"
      /\ r[1]
      /\ requests' = kept
      /\ tokens' = r[3]
      /\ last_refill_time' = r[4]
      /\ Goto(c, "allowed_append")
      /\ Quiet
      /\ UNCHANGED <<bucket, registry, cfg, now, lock, op, locals, hist>>

\* self.requests.append(current_time); return True (111-112): the with
\* statement releases the lock.
AllowedAppend(c) ==
  /\ pc[c] = "allowed_append"
  /\ requests' = Append(requests, current_time[c])
  /\ lock' = Unlocked(c)
  /\ ev' = Event("append", c, "True", Len(requests))
  /\ admitted' = (IF ~released THEN Append(admitted, now) ELSE admitted)
  /\ budget' = (IF use_token_bucket THEN budget - tokens_per_request ELSE budget)
  /\ lastWait' = NoWait
  /\ trip' = (IF Len(requests) = 0 THEN 1 ELSE 0)
  /\ Return(c)
  /\ UNCHANGED <<bucket, registry, cfg, now, tokens, last_refill_time, released>>

\* The callers probe and release, one of them asks for the wait time and the
\* other takes statistics; an admission takes its tokens and appends its
\* timestamp in two steps.
NextExclusion ==
  \/ Tick
  \/ \E c \in Callers : StartTryAcquire(c)
  \/ \E c \in Callers : StartRelease(c)
  \/ \E c \in Blocking : StartGetWaitTime(c)
  \/ \E c \in Callers \ Blocking : StartGetStats(c)
  \/ \E c \in Callers : AcquireLock(c)
  \/ \E c \in Callers : AllowedReject(c)
  \/ \E c \in Callers : AllowedTake(c)
  \/ \E c \in Callers : AllowedAppend(c)
  \/ \E c \in Blocking : WaitTimeBody(c)
  \/ \E c \in Callers : ReleaseBody(c)
  \/ \E c \in Callers \ Blocking : StatsBody(c)

SpecExclusion == Init /\ [][NextExclusion]_vars

\* C23: the callers inside a locked section are exactly the holder of the
\* lock, so at most one caller is inside one; while an admission has taken its
\* tokens and not yet appended its timestamp no other caller is inside a
\* locked section; and requests, tokens and last_refill_time change only in a
\* step of the caller that holds the lock.
MutualExclusion ==
  /\ [](\A c \in Callers : pc[c] \in CriticalSections <=> lock = c)
  /\ [](\A c, d \in Callers :
          pc[c] = "allowed_append" /\ d # c => pc[d] \notin CriticalSections)
  /\ [][limiter' # limiter =>
          /\ lock \in Callers
          /\ pc[lock] \in CriticalSections
          /\ pc'[lock] # pc[lock]
          /\ \A d \in Callers \ {lock} : pc'[d] = pc[d]]_vars

\* One caller has taken the tokens of its admission and not yet appended its
\* timestamp while the other caller stands at the lock.
HalfAdmissionUnobserved ==
  \E c, d \in Callers :
    /\ pc[c] = "allowed_append" /\ use_token_bucket
    /\ pc[d] \in LockedSections

\* One caller blocks in wait() or in acquire(timeout=T), again and again; the
\* other callers probe, release and take statistics.
NextSleep ==
  \/ Tick
  \/ \E c \in Blocking : StartWait(c)
  \/ \E c \in Blocking : \E T \in Timeouts : StartAcquire(c, T)
  \/ \E c \in Blocking : WaitStep(c)
  \/ \E c \in Blocking : AcquireCheck(c)
  \/ \E c \in Blocking : AcquireSleep(c)
  \/ \E c \in Callers \ Blocking : StartTryAcquire(c)
  \/ \E c \in Callers \ Blocking : StartRelease(c)
  \/ \E c \in Callers \ Blocking : StartGetStats(c)
  \/ \E c \in Callers \ Blocking : AcquireLock(c)
  \/ \E c \in Callers \ Blocking : AllowedBody(c)
  \/ \E c \in Callers \ Blocking : ReleaseBody(c)
  \/ \E c \in Callers \ Blocking : StatsBody(c)

SpecSleep == Init /\ [][NextSleep]_vars

\* The labels at which a caller is about to call time.sleep or inside it.
Sleeps == {"wait_sleep", "acquire_sleep", "sleeping"}

\* C24: a caller about to sleep or asleep in wait() or acquire(timeout) does
\* not hold the lock, and the lock is then either free or held by a caller
\* that is inside a locked section of its own.
SleepsUnlocked ==
  \A c \in Callers :
    pc[c] \in Sleeps =>
      /\ lock # c
      /\ lock # Free => pc[lock] \in CriticalSections

\* While the blocked caller was asleep another caller completed a probe, a
\* release or a statistics call.
CompletedDuringSleep ==
  \E c \in Callers :
    /\ pc[c] = "sleeping"
    /\ ev.who \in Callers \ {c}
    /\ ev.kind \in {"allowed", "release", "stats"}

\* One caller alone blocks in wait() or in acquire(timeout=T), again and again.
NextPacing ==
  \/ Tick
  \/ \E c \in Blocking : StartWait(c)
  \/ \E c \in Blocking : \E T \in Timeouts : StartAcquire(c, T)
  \/ \E c \in Blocking : WaitStep(c)
  \/ \E c \in Blocking : AcquireCheck(c)
  \/ \E c \in Blocking : AcquireSleep(c)

SpecPacing == Init /\ [][NextPacing]_vars

\* A time.sleep of a retry loop has begun.
Slept == ev.kind = "sleep"

\* C25: the sleep a blocking acquire begins after a rejected probe lasts
\* min(waitTime(), end_time - now) when it has a timeout, and the value its
\* call of waitTime() returned when it has none.
RetryPacing ==
  /\ (Slept /\ ev.op = "acquire") =>
       ev.val = Min(GetWaitTime(ev.requests, ev.tokens, ev.last_refill_time,
                                now, now)[1],
                    ev.end_time - now)
  /\ (Slept /\ ev.op = "wait") =>
       ev.lastWait.set /\ ev.val = ev.lastWait.v

\* The clock advances only while every caller of Blocking is idle or inside a
\* time.sleep that has not ended: no caller is delayed between statements.
TickTimely ==
  /\ \A c \in Blocking :
       \/ pc[c] = "idle"
       \/ pc[c] = "sleeping" /\ now < sleep_until[c]
  /\ Tick

\* One caller alone, never delayed, probes and acquires with a timeout.
NextDeadline ==
  \/ TickTimely
  \/ \E c \in Blocking : StartTryAcquire(c)
  \/ \E c \in Blocking : \E T \in Timeouts : StartAcquire(c, T)
  \/ \E c \in Blocking : AcquireLock(c)
  \/ \E c \in Blocking : AllowedBody(c)
  \/ \E c \in Blocking : AllowedRead(c)
  \/ \E c \in Blocking : Wake(c)
  \/ \E c \in Blocking : AcquireCheck(c)
  \/ \E c \in Blocking : AcquireSleep(c)

SpecDeadline == Init /\ [][NextDeadline]_vars

RECURSIVE ExpiredAfter(_, _)
\* The deque as _cleanup_old_requests leaves it at any instant after clock
\* reading u: a timestamp is popped once current_time - requests[0] >
\* per_seconds, which every instant after u satisfies when u - requests[0] >=
\* per_seconds.
ExpiredAfter(reqs, u) ==
  IF reqs # <<>> /\ u - Head(reqs) >= per_seconds
  THEN ExpiredAfter(Tail(reqs), u)
  ELSE reqs

\* A probe at any instant after clock reading u is admitted, the limiter being
\* left alone: the window has room (103) and the bucket as refilled at u has
\* tokens_per_request (78).
AdmissibleAfter(reqs, tok, lrt, u) ==
  /\ Len(ExpiredAfter(reqs, u)) < max_requests
  /\ use_token_bucket => RefillTokens(tok, lrt, u)[1] >= tokens_per_request

\* C26: acquire(timeout=T) with T > 0, run by a caller alone, does not return
\* False when from some clock reading u before its deadline on a probe at any
\* later instant would have been admitted.
NoMissedCapacity ==
  (TimedOut /\ ev.timeout > 0) =>
    ~\E u \in (ev.end_time - ev.timeout) .. (ev.end_time - 1) :
        AdmissibleAfter(requests, tokens, last_refill_time, u)

\* C27: an estimate of 0 means a probe is admitted: when _get_wait_time()
\* returns 0, _is_request_allowed() at the same clock reading on the state the
\* estimate left returns True.
ZeroWaitAdmits ==
  (Estimated /\ ev.res = "None" /\ ev.val = 0) =>
    IsRequestAllowed(requests, tokens, last_refill_time, ev.t, now)[1]

\* The body of a locked section of caller c runs to its end.
SectionStep(c) ==
  \/ AllowedBody(c)
  \/ WaitTimeBody(c)
  \/ ReleaseBody(c)
  \/ StatsBody(c)

\* The callers probe, release, take statistics and ask for the wait time at
\* one clock reading.
NextLock ==
  \/ \E c \in Callers : StartTryAcquire(c)
  \/ \E c \in Callers : StartRelease(c)
  \/ \E c \in Callers : StartGetWaitTime(c)
  \/ \E c \in Callers : StartGetStats(c)
  \/ \E c \in Callers : AcquireLock(c)
  \/ \E c \in Callers : SectionStep(c)

\* A thread inside a locked section keeps running, and a thread blocked in
\* Lock.acquire obtains the lock if it is released again and again.
SpecLock ==
  /\ Init
  /\ [][NextLock]_vars
  /\ \A c \in Callers : WF_vars(SectionStep(c))
  /\ \A c \in Callers : SF_vars(AcquireLock(c))

\* C28: the lock is held only by a caller inside a locked section (it is
\* released before every return), a caller that stands at the lock does not
\* hold it, when every caller stands at the lock the lock is free, and a
\* caller that stands at the lock eventually holds it.
DeadlockFreedom ==
  /\ [](lock # Free => pc[lock] \in CriticalSections)
  /\ [](\A c \in Callers : pc[c] \in LockedSections => lock # c)
  /\ []((\A c \in Callers : pc[c] \in LockedSections) => lock = Free)
  /\ \A c \in Callers : (pc[c] \in LockedSections) ~> (lock = c)

\* One caller stands at the lock while another is inside a locked section.
StandsAtHeldLock ==
  \E c, d \in Callers :
    /\ c # d
    /\ pc[c] \in LockedSections
    /\ lock = d /\ pc[d] \in CriticalSections

\* ------------------------------------------ tokens.TokenBucket (202-257)

\* What a step of the bucket leaves alone.
notBucket == <<registry, cfg, now, limiter, lock, pc, op, locals, ev, hist>>

\* The labels at which a caller is between "self.lock = True" and the end of
\* consume, or inside the _update_tokens of get_tokens.
Mutating ==
  {"update_read", "update_add", "update_min", "update_stamp", "test",
   "subtract", "unlock"}

TbGoto(c, l) == tb_pc' = [tb_pc EXCEPT ![c] = l]

\* Where _update_tokens returns to: consume (247) or get_tokens (257).
AfterUpdate(c) == IF tb_local[c].op = "consume" THEN "test" ELSE "get_return"

\* consume(n) is called.
StartConsume(c, n) ==
  /\ tb_pc[c] = "idle"
  /\ tb_local' = [tb_local EXCEPT ![c] = [NoLocal EXCEPT !.op = "consume",
                                                          !.tokens = n]]
  /\ TbGoto(c, "poll")
  /\ UNCHANGED <<notBucket, tb_tokens, last_update, tb_lock, tb_consumed>>

\* while self.lock: time.sleep(0.001) -- the flag is read False (239-240).
PollFlag(c) ==
  /\ tb_pc[c] = "poll"
  /\ ~tb_lock
  /\ TbGoto(c, "set")
  /\ UNCHANGED <<notBucket, tb_tokens, last_update, tb_lock, tb_local, tb_consumed>>

\* self.lock = True (242), then consume calls _update_tokens (245).
SetFlag(c) ==
  /\ tb_pc[c] = "set"
  /\ tb_lock' = TRUE
  /\ TbGoto(c, "update_read")
  /\ UNCHANGED <<notBucket, tb_tokens, last_update, tb_local, tb_consumed>>

\* get_tokens() is called: it calls _update_tokens at once (256).
StartGetTokens(c) ==
  /\ tb_pc[c] = "idle"
  /\ tb_local' = [tb_local EXCEPT ![c] = [NoLocal EXCEPT !.op = "get"]]
  /\ TbGoto(c, "update_read")
  /\ UNCHANGED <<notBucket, tb_tokens, last_update, tb_lock, tb_consumed>>

\* now = time.time(); time_passed = now - self.last_update; if time_passed > 0:
\* (220-223)
UpdateRead(c) ==
  /\ tb_pc[c] = "update_read"
  /\ tb_local' = [tb_local EXCEPT ![c].now = now,
                                  ![c].time_passed = now - last_update]
  /\ TbGoto(c, IF now - last_update > 0 THEN "update_add" ELSE AfterUpdate(c))
  /\ UNCHANGED <<notBucket, tb_tokens, last_update, tb_lock, tb_consumed>>

\* self.tokens += (time_passed / self.interval) * self.tokens_per_interval (225)
UpdateAdd(c) ==
  /\ tb_pc[c] = "update_add"
  /\ tb_tokens' = tb_tokens
                    + (tb_local[c].time_passed * tokens_per_interval) \div interval
  /\ TbGoto(c, "update_min")
  /\ UNCHANGED <<notBucket, last_update, tb_lock, tb_local, tb_consumed>>

\* self.tokens = min(self.tokens, self.tokens_per_interval) (226)
UpdateMin(c) ==
  /\ tb_pc[c] = "update_min"
  /\ tb_tokens' = Min(tb_tokens, tokens_per_interval)
  /\ TbGoto(c, "update_stamp")
  /\ UNCHANGED <<notBucket, last_update, tb_lock, tb_local, tb_consumed>>

\* self.last_update = now (227)
UpdateStamp(c) ==
  /\ tb_pc[c] = "update_stamp"
  /\ last_update' = tb_local[c].now
  /\ TbGoto(c, AfterUpdate(c))
  /\ UNCHANGED <<notBucket, tb_tokens, tb_lock, tb_local, tb_consumed>>

\* if tokens <= self.tokens: ... return False (247, 250)
TestTokens(c) ==
  /\ tb_pc[c] = "test"
  /\ TbGoto(c, IF tb_local[c].tokens <= tb_tokens THEN "subtract" ELSE "unlock")
  /\ UNCHANGED <<notBucket, tb_tokens, last_update, tb_lock, tb_local, tb_consumed>>

\* self.tokens -= tokens; return True (248-249)
Subtract(c) ==
  /\ tb_pc[c] = "subtract"
  /\ tb_tokens' = tb_tokens - tb_local[c].tokens
  /\ tb_consumed' = tb_consumed + tb_local[c].tokens
  /\ TbGoto(c, "unlock")
  /\ UNCHANGED <<notBucket, last_update, tb_lock, tb_local>>

\* finally: self.lock = False (251-252); consume returns.
ClearFlag(c) ==
  /\ tb_pc[c] = "unlock"
  /\ tb_lock' = FALSE
  /\ tb_local' = [tb_local EXCEPT ![c] = NoLocal]
  /\ TbGoto(c, "idle")
  /\ UNCHANGED <<notBucket, tb_tokens, last_update, tb_consumed>>

\* return self.tokens (257)
ReturnTokens(c) ==
  /\ tb_pc[c] = "get_return"
  /\ tb_local' = [tb_local EXCEPT ![c] = NoLocal]
  /\ TbGoto(c, "idle")
  /\ UNCHANGED <<notBucket, tb_tokens, last_update, tb_lock, tb_consumed>>

\* The clock advances while the callers use the bucket.
TickBucket ==
  /\ now < MaxTime
  /\ now' = now + 1
  /\ UNCHANGED <<bucket, registry, cfg, limiter, lock, pc, op, locals, ev, hist>>

\* The callers call consume and get_tokens on the one bucket.
NextBucket ==
  \/ TickBucket
  \/ \E c \in Callers : \E n \in Amounts : StartConsume(c, n)
  \/ \E c \in Callers : StartGetTokens(c)
  \/ \E c \in Callers : PollFlag(c)
  \/ \E c \in Callers : SetFlag(c)
  \/ \E c \in Callers : UpdateRead(c)
  \/ \E c \in Callers : UpdateAdd(c)
  \/ \E c \in Callers : UpdateMin(c)
  \/ \E c \in Callers : UpdateStamp(c)
  \/ \E c \in Callers : TestTokens(c)
  \/ \E c \in Callers : Subtract(c)
  \/ \E c \in Callers : ClearFlag(c)
  \/ \E c \in Callers : ReturnTokens(c)

SpecBucket == InitRegistry /\ [][NextBucket]_vars

\* C29: at most one caller is between the taking of the flag and the end of
\* consume or inside the _update_tokens of get_tokens, tokens is never
\* negative, and the tokens taken by successful consume() calls never exceed
\* the initial tokens_per_interval plus tokens_per_interval for every
\* interval of elapsed time.
BucketExclusive ==
  /\ Cardinality({c \in Callers : tb_pc[c] \in Mutating}) <= 1
  /\ tb_tokens >= 0
  /\ tb_consumed <= tokens_per_interval + (now * tokens_per_interval) \div interval

====
